---- MODULE Spec2Model ----
(***************************************************************************)
(* RealEstate/apps/core/views.py: the login redirect, the access gate      *)
(* (BaseView.dispatch), the home view (HomeView.get / HomeView.post with   *)
(* its invitation transaction) and the evaluation view (EvalView.get /     *)
(* EvalView.post) over the relational tables they read and write.          *)
(***************************************************************************)
EXTENDS Integers, Sequences, FiniteSets, TLC

\* ------------------------------------------------------------------ bounds
\* Rows the model lets the Grade and PendingCouple tables hold together
\* (an in-flight invitation counts as one).
MaxRows == 2

\* ------------------------------------------------- the rows the views read
\* request.user: five users with a role row, one without, and the anonymous
\* user of a request that carries no session.
Anonymous == "anonymous"

Users == {"realtor1", "realtor2", "hb1", "hb2", "hb0", "admin"}

Actors == Users \cup {Anonymous}

NoCouple == "none"

\* Realtor rows: (id, user).
Realtors == { [id |-> "R1", user |-> "realtor1"],
              [id |-> "R2", user |-> "realtor2"] }

\* Couple rows: (id, realtor).  realtor2 owns no couple.
Couples == { [id |-> "K1", realtor |-> "R1"],
             [id |-> "K2", realtor |-> "R1"] }

\* Homebuyer rows: (user, couple).  hb1 and hb2 are partners; hb0 is a
\* Homebuyer whose couple is not set.
Homebuyers == { [user |-> "hb1", couple |-> "K1"],
                [user |-> "hb2", couple |-> "K1"],
                [user |-> "hb0", couple |-> NoCouple] }

\* House rows: (id, couple).
Houses == { [id |-> 1, couple |-> "K1"],
            [id |-> 3, couple |-> "K2"] }

\* Category rows: (id, couple).  Category 300 lies outside the range of
\* integers the interpreter keeps as shared objects.
Categories == { [id |-> 1,   couple |-> "K1"],
                [id |-> 300, couple |-> "K1"],
                [id |-> 2,   couple |-> "K2"] }

\* ------------------------------------------------------- request inputs
HouseIds == {1, 3, 9}

CategoryIds == {1, 300, 2, 99}

ScoreInputs == {"1", "5", "x"}

\* The two fields of the invitation form; "" is a field left empty.
FirstEmailInputs == {"", "a@x.org"}

SecondEmailInputs == {"", "b@x.org"}

\* ------------------------------------------------------------ the state
VARIABLES
    grades,             \* Grade rows: (homebuyer, category, house, score)
    pendingCouples,     \* PendingCouple rows other requests can read
    pendingHomebuyers,  \* PendingHomebuyer rows other requests can read
    tx,                 \* the invitation transaction in flight
    response            \* the response being returned, or the idle record

vars == <<grades, pendingCouples, pendingHomebuyers, tx, response>>

\* ------------------------------------------------ users, roles (models)
\* request.user.is_authenticated()
IsAuthenticated(user) == user /= Anonymous

\* User.role_object: "Homebuyer", "Realtor", or "None" when the user has
\* neither row.
RoleType(user) ==
    IF \E h \in Homebuyers : h.user = user THEN "Homebuyer"
    ELSE IF \E r \in Realtors : r.user = user THEN "Realtor"
    ELSE "None"

\* User._ALL_TYPES_ALLOWED, the allow-list both views inherit from BaseView.
UserTypesAllowed(view) == {"Homebuyer", "Realtor"}

\* role.couple of a Homebuyer role.
HomebuyerCouple(user) == (CHOOSE h \in Homebuyers : h.user = user).couple

\* Couple.objects.filter(homebuyer__user=request.user)
CoupleOfUser(user) ==
    { c \in Couples : \E h \in Homebuyers : h.user = user /\ h.couple = c.id }

\* Realtor.objects.filter(user=request.user)
RealtorOfUser(user) == { r \in Realtors : r.user = user }

\* House.objects.filter(id=house_id), as get_object_or_404 sees it.
HouseById(house_id) == { x \in Houses : x.id = house_id }

\* Category.objects.get(id=id): the rows it can return.
CategoryById(id) == { c \in Categories : c.id = id }

\* int(score) of the posted string; "error" stands for ValueError.
ParseInt(s) ==
    CASE s = "1" -> [ok |-> TRUE,  value |-> 1]
      [] s = "5" -> [ok |-> TRUE,  value |-> 5]
      [] OTHER   -> [ok |-> FALSE, value |-> 0]

\* The elements of a finite set of integers in ascending order (the order
\* the rows of a queryset come back in, by primary key).
RECURSIVE SortedIds(_)
SortedIds(S) ==
    IF S = {} THEN <<>>
    ELSE LET m == CHOOSE x \in S : \A y \in S : x <= y
         IN  <<m>> \o SortedIds(S \ {m})

\* Couple ids in queryset order.
RECURSIVE SortedNames(_, _)
SortedNames(S, order) ==
    IF order = <<>> THEN <<>>
    ELSE IF Head(order) \in S
         THEN <<Head(order)>> \o SortedNames(S, Tail(order))
         ELSE SortedNames(S, Tail(order))

CoupleOrder == <<"K1", "K2">>

\* ------------------------------------------------------ the access gate
\* BaseView._permission_check
BasePermissionCheck(user, house_id) == "True"

\* A permission check that lets every Homebuyer through.
EvalPermissionCheckAnyHomebuyer(user, house_id) ==
    IF RoleType(user) = "Homebuyer" THEN "True" ELSE "False"

\* EvalView._permission_check: "True", "False", or "Raise" when role.couple
\* is not set and .house_set is read from it.
EvalPermissionCheck(user, house_id) ==
    IF RoleType(user) = "Homebuyer"
    THEN IF HomebuyerCouple(user) = NoCouple THEN "Raise"
         ELSE IF \E x \in Houses :
                    x.couple = HomebuyerCouple(user) /\ x.id = house_id
              THEN "True"
              ELSE "False"
    ELSE "False"

PermissionCheck(view, user, house_id) ==
    IF view = "eval" THEN EvalPermissionCheck(user, house_id)
    ELSE BasePermissionCheck(user, house_id)

\* A gate that never calls _permission_check.
DispatchNoPermissionCheck(view, user, house_id) ==
    IF ~IsAuthenticated(user) THEN "RedirectLogin"
    ELSE IF RoleType(user) /= "None" /\ RoleType(user) \in UserTypesAllowed(view)
         THEN "Proceed"
         ELSE "PermissionDenied"

\* BaseView.dispatch under login_required: what becomes of the request
\* before any handler body runs.
Dispatch(view, user, house_id) ==
    IF ~IsAuthenticated(user) THEN "RedirectLogin"
    ELSE IF RoleType(user) /= "None" /\ RoleType(user) \in UserTypesAllowed(view)
         THEN CASE PermissionCheck(view, user, house_id) = "True"  -> "Proceed"
                [] PermissionCheck(view, user, house_id) = "False" -> "PermissionDenied"
                [] OTHER -> "ServerError"
         ELSE "PermissionDenied"

\* ------------------------------------------------------------ responses
\* What a request asked and what came back: the view, method, user and the
\* house id of the URL, and, once a handler body was entered (ran), the body
\* of the request (POST fields, AJAX marker) and what the handler produced.
\* Idle is the record of a worker with nothing to return.
Idle ==
    [ view |-> "none", method |-> "GET", user |-> Anonymous,
      house |-> 0, category |-> 0, score |-> "", ajax |-> FALSE,
      first_email |-> "", second_email |-> "",
      status |-> "none", ran |-> FALSE, branch |-> "none",
      created |-> FALSE, pc |-> 0, failed_at |-> "none", body |-> <<>> ]

NoTx ==
    [ active |-> FALSE, user |-> Anonymous, first_email |-> "",
      second_email |-> "", step |-> "none", pc |-> {}, phs |-> {} ]

\* The response of a request the gate turned away: no handler body ran.
Rejected(view, method, user, house_id) ==
    [Idle EXCEPT !.view = view, !.method = method, !.user = user,
                 !.house = house_id,
                 !.status = Dispatch(view, user, house_id)]

\* ---------------------------------------------------------------- login
\* login(): an authenticated user is sent home, anyone else gets the
\* framework's login view.
LoginView(user) ==
    [Idle EXCEPT !.view = "login", !.user = user, !.ran = TRUE,
                 !.status = IF IsAuthenticated(user) THEN "RedirectHome"
                            ELSE "LoginForm"]

\* ------------------------------------------------------------ home view
\* Homebuyer.objects.filter(couple=couple)
HomebuyersOfCouple(couple_id) ==
    { h.user : h \in { g \in Homebuyers : g.couple = couple_id } }

\* PendingHomebuyer.objects.filter(pending_couple=pendingCouple)
PendingHomebuyersOf(phs, pc_id) ==
    { h.id : h \in { g \in phs : g.pending_couple = pc_id } }

\* The first loop: one (couple, homebuyers, False) per couple of the realtor.
RECURSIVE RealCoupleData(_)
RealCoupleData(ids) ==
    IF ids = <<>> THEN <<>>
    ELSE << [entity |-> Head(ids), members |-> HomebuyersOfCouple(Head(ids)),
             pending |-> FALSE] >> \o RealCoupleData(Tail(ids))

\* The second loop: one (pendingCouple, pendingHomebuyers, True) per pending
\* couple of the realtor.
RECURSIVE PendingCoupleData(_, _)
PendingCoupleData(ids, phs) ==
    IF ids = <<>> THEN <<>>
    ELSE << [entity |-> Head(ids), members |-> PendingHomebuyersOf(phs, Head(ids)),
             pending |-> TRUE] >> \o PendingCoupleData(Tail(ids), phs)

\* coupleData with the pending couples listed first.
CoupleDataPendingFirst(user, pcs, phs) ==
    LET realtor == { r.id : r \in RealtorOfUser(user) }
        couples == { c.id : c \in { k \in Couples : k.realtor \in realtor } }
        pending == { c.id : c \in { k \in pcs : k.realtor \in realtor } }
    IN  PendingCoupleData(SortedIds(pending), phs)
          \o RealCoupleData(SortedNames(couples, CoupleOrder))

\* coupleData as both handlers build it: the realtor's couples, then the
\* realtor's pending couples, from the tables as they are when the loops run.
CoupleData(user, pcs, phs) ==
    LET realtor == { r.id : r \in RealtorOfUser(user) }
        couples == { c.id : c \in { k \in Couples : k.realtor \in realtor } }
        pending == { c.id : c \in { k \in pcs : k.realtor \in realtor } }
    IN  RealCoupleData(SortedNames(couples, CoupleOrder))
          \o PendingCoupleData(SortedIds(pending), phs)

\* The branch HomeView.get and HomeView.post take: the couple queryset is
\* tested first, the realtor queryset second.
HomeBranch(user) ==
    IF CoupleOfUser(user) /= {} THEN "homebuyer"
    ELSE IF RealtorOfUser(user) /= {} THEN "realtor"
    ELSE "neither"

\* HomeView.get once the gate has let the request through.
HomeGetBody(req, pcs, phs) ==
    CASE HomeBranch(req.user) = "homebuyer" ->
            [req EXCEPT !.ran = TRUE, !.branch = "homebuyer", !.status = "OK"]
      [] HomeBranch(req.user) = "realtor" ->
            [req EXCEPT !.ran = TRUE, !.branch = "realtor", !.status = "OK",
                        !.body = CoupleData(req.user, pcs, phs)]
      [] OTHER ->
            [req EXCEPT !.ran = TRUE, !.branch = "neither", !.status = "Fatal"]

\* InviteHomebuyerForm(request.POST).is_valid(): both addresses are given.
FormIsValid(first_email, second_email) ==
    first_email /= "" /\ second_email /= ""

\* -------------------------------------------- the invitation transaction
\* A write made without a transaction: the row is in the table at once.
AutocommitWrite(table, row) == table \cup {row}

\* A write made inside `with transaction.atomic()`: the row is held by the
\* transaction, and the table other requests read is as it was until the
\* block is left without an exception.
AtomicWrite(table, row) == table

\* A queryset evaluated where it is built, before the transaction.
QueryWhenBuilt(before, after) == before

\* couples / pendingCouples are built before the transaction and first
\* iterated after it: the rows are those of the table when the loop runs.
QueryWhenIterated(before, after) == after

RowsInUse == Cardinality(grades) + Cardinality(pendingCouples)
                + (IF tx.active THEN 1 ELSE 0)

MaxId(ids) == IF ids = {} THEN 0 ELSE CHOOSE m \in ids : \A n \in ids : n <= m

NextPendingCoupleId == 1 + MaxId({ c.id : c \in pendingCouples \cup tx.pc })

NextPendingHomebuyerId == 1 + MaxId({ h.id : h \in pendingHomebuyers \cup tx.phs })

HomeRequest(method, user, first_email, second_email) ==
    [Idle EXCEPT !.view = "home", !.method = method, !.user = user,
                 !.first_email = first_email, !.second_email = second_email]

\* The response of a submission whose transaction raised.
InviteFailed ==
    [HomeRequest("POST", tx.user, tx.first_email, tx.second_email)
        EXCEPT !.ran = TRUE, !.branch = "realtor", !.status = "ServerError",
               !.pc = (CHOOSE c \in tx.pc : TRUE).id, !.failed_at = tx.step]

\* HomeView.post, realtor branch, valid form: the atomic block is entered and
\* PendingCouple.objects.create runs.
InviteBegin(user, first_email, second_email) ==
    /\ response = Idle
    /\ ~tx.active
    /\ RowsInUse < MaxRows
    /\ Dispatch("home", user, 0) = "Proceed"
    /\ HomeBranch(user) = "realtor"
    /\ FormIsValid(first_email, second_email)
    /\ LET row == [id |-> NextPendingCoupleId,
                   realtor |-> (CHOOSE r \in RealtorOfUser(user) : TRUE).id]
       IN  /\ tx' = [active |-> TRUE, user |-> user,
                     first_email |-> first_email, second_email |-> second_email,
                     step |-> "first", pc |-> {row}, phs |-> {}]
           /\ pendingCouples' = AtomicWrite(pendingCouples, row)
    /\ UNCHANGED <<grades, pendingHomebuyers, response>>

\* HomeView._invite_homebuyer inside the atomic block: the create, then
\* send_email_invite; either may raise, and the block then rolls back.
InviteHomebuyer(email, step, next) ==
    /\ response = Idle
    /\ tx.active
    /\ tx.step = step
    /\ LET row == [id |-> NextPendingHomebuyerId, email |-> email,
                   pending_couple |-> (CHOOSE c \in tx.pc : TRUE).id]
       IN  \E outcome \in {"ok", "create_raises", "send_raises"} :
             CASE outcome = "ok" ->
                    /\ pendingHomebuyers' = AtomicWrite(pendingHomebuyers, row)
                    /\ tx' = [tx EXCEPT !.phs = @ \cup {row}, !.step = next]
                    /\ UNCHANGED response
               [] outcome = "send_raises" ->
                    /\ pendingHomebuyers' = AtomicWrite(pendingHomebuyers, row)
                    /\ tx' = NoTx
                    /\ response' = InviteFailed
               [] OTHER ->
                    /\ UNCHANGED pendingHomebuyers
                    /\ tx' = NoTx
                    /\ response' = InviteFailed
    /\ UNCHANGED <<grades, pendingCouples>>

InviteFirst == InviteHomebuyer(tx.first_email, "first", "second")

InviteSecond == InviteHomebuyer(tx.second_email, "second", "commit")

\* The atomic block is left: its rows reach the tables, and the rest of
\* HomeView.post builds coupleData and renders.
InviteCommit ==
    /\ response = Idle
    /\ tx.active
    /\ tx.step = "commit"
    /\ pendingCouples' = pendingCouples \cup tx.pc
    /\ pendingHomebuyers' = pendingHomebuyers \cup tx.phs
    /\ tx' = NoTx
    /\ response' =
         [HomeRequest("POST", tx.user, tx.first_email, tx.second_email)
            EXCEPT !.ran = TRUE, !.branch = "realtor", !.status = "OK",
                   !.pc = (CHOOSE c \in tx.pc : TRUE).id,
                   !.body = CoupleData(tx.user,
                               QueryWhenIterated(pendingCouples, pendingCouples'),
                               QueryWhenIterated(pendingHomebuyers, pendingHomebuyers'))]
    /\ UNCHANGED grades

\* HomeView.post once the gate has let the request through, in the cases
\* that open no transaction.  The homebuyer branch reads `couples`, which is
\* only assigned in the realtor branch.
HomePostBody(req, pcs, phs) ==
    CASE HomeBranch(req.user) = "homebuyer" ->
            [req EXCEPT !.ran = TRUE, !.branch = "homebuyer",
                        !.status = "ServerError"]
      [] HomeBranch(req.user) = "realtor" ->
            [req EXCEPT !.ran = TRUE, !.branch = "realtor", !.status = "OK",
                        !.body = CoupleData(req.user, pcs, phs)]
      [] OTHER ->
            [req EXCEPT !.ran = TRUE, !.branch = "neither", !.status = "Fatal"]

\* ------------------------------------------------------- the home actions
Login(user) ==
    /\ response = Idle
    /\ response' = LoginView(user)
    /\ UNCHANGED <<grades, pendingCouples, pendingHomebuyers, tx>>

\* BaseView.dispatch raising PermissionDenied, login_required redirecting,
\* or the permission check itself raising: the request ends at the gate.
GateRejects(view, method, user, house_id) ==
    /\ response = Idle
    /\ Dispatch(view, user, house_id) /= "Proceed"
    /\ response' = Rejected(view, method, user, house_id)
    /\ UNCHANGED <<grades, pendingCouples, pendingHomebuyers, tx>>

HomeGet(user) ==
    /\ response = Idle
    /\ Dispatch("home", user, 0) = "Proceed"
    /\ response' = HomeGetBody(HomeRequest("GET", user, "", ""),
                               pendingCouples, pendingHomebuyers)
    /\ UNCHANGED <<grades, pendingCouples, pendingHomebuyers, tx>>

HomePost(user, first_email, second_email) ==
    /\ response = Idle
    /\ Dispatch("home", user, 0) = "Proceed"
    /\ ~(HomeBranch(user) = "realtor" /\ FormIsValid(first_email, second_email))
    /\ response' = HomePostBody(HomeRequest("POST", user, first_email, second_email),
                                pendingCouples, pendingHomebuyers)
    /\ UNCHANGED <<grades, pendingCouples, pendingHomebuyers, tx>>

\* ------------------------------------------------------ evaluation view
EvalRequest(method, user, house_id, category_id, score, ajax) ==
    [Idle EXCEPT !.view = "eval", !.method = method, !.user = user,
                 !.house = house_id, !.category = category_id,
                 !.score = score, !.ajax = ajax]

\* a == b on two integers.
IntEquals(a, b, identical) == a = b

\* `a is b` on two integers read from the database: equal integers in
\* -5..256 are one shared object; outside that range two equal integers are
\* one object or two, as the interpreter made them (identical).
IntIs(a, b, identical) ==
    /\ a = b
    /\ \/ (a \in -5..256)
       \/ identical

\* Grade.objects.filter(house=house, homebuyer=homebuyer)
GradesOf(table, house_id, homebuyer) ==
    { g \in table : g.house = house_id /\ g.homebuyer = homebuyer }

\* The merge loop of EvalView.get: one (category, score) per category, the
\* score of the first grade whose category id `is` the category's, else None
\* (has_score FALSE).
RECURSIVE Graded(_, _, _)
Graded(category_ids, rows, identical) ==
    IF category_ids = <<>> THEN <<>>
    ELSE LET id == Head(category_ids)
             hits == { g \in rows : IntIs(g.category, id, identical) }
             entry == IF hits = {}
                      THEN [category |-> id, has_score |-> FALSE, score |-> 0]
                      ELSE [category |-> id, has_score |-> TRUE,
                            score |-> (CHOOSE g \in hits : TRUE).score]
         IN  <<entry>> \o Graded(Tail(category_ids), rows, identical)

\* EvalView.get once the gate has let the request through.
EvalGetBody(req, table, identical) ==
    LET couple == { c.id : c \in CoupleOfUser(req.user) }
        categories == { c.id : c \in { k \in Categories : k.couple \in couple } }
    IN  IF HouseById(req.house) = {}
        THEN [req EXCEPT !.ran = TRUE, !.status = "NotFound"]
        ELSE [req EXCEPT !.ran = TRUE, !.status = "OK",
                         !.body = Graded(SortedIds(categories),
                                         GradesOf(table, req.house, req.user),
                                         identical)]

MatchingGrades(table, homebuyer, category_id, house_id) ==
    { g \in table : /\ g.homebuyer = homebuyer
                    /\ g.category = category_id
                    /\ g.house = house_id }

\* An insert on every submission.
AlwaysCreate(table, homebuyer, category_id, house_id, score) ==
    table \cup { [homebuyer |-> homebuyer, category |-> category_id,
                  house |-> house_id, score |-> score] }

\* An upsert keyed on (category, house) alone.
UpdateOrCreateAnyHomebuyer(table, homebuyer, category_id, house_id, score) ==
    LET hit == { g \in table : g.category = category_id /\ g.house = house_id }
    IN  IF hit = {}
        THEN table \cup { [homebuyer |-> homebuyer, category |-> category_id,
                           house |-> house_id, score |-> score] }
        ELSE (table \ hit) \cup { [g EXCEPT !.score = score] : g \in hit }

\* Grade.objects.update_or_create(homebuyer=, category=, house=,
\* defaults={'score': }): the table afterwards.
UpdateOrCreate(table, homebuyer, category_id, house_id, score) ==
    LET hit == MatchingGrades(table, homebuyer, category_id, house_id)
    IN  IF hit = {}
        THEN table \cup { [homebuyer |-> homebuyer, category |-> category_id,
                           house |-> house_id, score |-> score] }
        ELSE (table \ hit) \cup { [g EXCEPT !.score = score] : g \in hit }

\* An evaluation post that skips the is_ajax test.
EvalPostAccepts(req) == TRUE

\* `if not request.is_ajax(): raise PermissionDenied`
EvalPostIsAjax(req) == req.ajax

\* EvalView.post once the gate has let the request through: the response.
EvalPostBody(req, table) ==
    IF ~EvalPostIsAjax(req)
    THEN [req EXCEPT !.ran = TRUE, !.status = "PermissionDenied"]
    ELSE IF HouseById(req.house) = {}
    THEN [req EXCEPT !.ran = TRUE, !.status = "NotFound"]
    ELSE IF CategoryById(req.category) = {} \/ ~ParseInt(req.score).ok
            \/ RoleType(req.user) /= "Homebuyer"
    THEN [req EXCEPT !.ran = TRUE, !.status = "ServerError"]
    ELSE [req EXCEPT !.ran = TRUE, !.status = "OK",
                     !.created = (MatchingGrades(table, req.user, req.category,
                                                 req.house) = {})]

\* EvalView.post: the Grade table afterwards.
EvalPostGrades(resp, table) ==
    IF resp.ran /\ resp.status = "OK"
    THEN UpdateOrCreate(table, resp.user, resp.category, resp.house,
                        ParseInt(resp.score).value)
    ELSE table

\* --------------------------------------------------- the evaluation actions
EvalGet(user, house_id) ==
    /\ response = Idle
    /\ Dispatch("eval", user, house_id) = "Proceed"
    /\ \E identical \in BOOLEAN :
         response' = EvalGetBody(EvalRequest("GET", user, house_id, 0, "", FALSE),
                                 grades, identical)
    /\ UNCHANGED <<grades, pendingCouples, pendingHomebuyers, tx>>

EvalPost(user, house_id, category_id, score, ajax) ==
    /\ response = Idle
    /\ Dispatch("eval", user, house_id) = "Proceed"
    /\ LET resp == EvalPostBody(EvalRequest("POST", user, house_id, category_id,
                                            score, ajax), grades)
       IN  /\ response' = resp
           /\ grades' = EvalPostGrades(resp, grades)
    /\ Cardinality(grades') + Cardinality(pendingCouples)
          + (IF tx.active THEN 1 ELSE 0) <= MaxRows
    /\ UNCHANGED <<pendingCouples, pendingHomebuyers, tx>>

\* The response leaves the worker.
Deliver ==
    /\ response /= Idle
    /\ response' = Idle
    /\ UNCHANGED <<grades, pendingCouples, pendingHomebuyers, tx>>

\* ------------------------------------------------------ the specification
Init ==
    /\ grades = {}
    /\ pendingCouples = {}
    /\ pendingHomebuyers = {}
    /\ tx = NoTx
    /\ response = Idle

DoGateRejects ==
    \E view \in {"home", "eval"}, method \in {"GET", "POST"}, user \in Actors,
       house_id \in HouseIds \cup {0} :
        /\ (view = "home") = (house_id = 0)
        /\ GateRejects(view, method, user, house_id)

DoLogin == \E user \in Actors : Login(user)

DoHomeGet == \E user \in Actors : HomeGet(user)

DoHomePost ==
    \E user \in Actors, first_email \in FirstEmailInputs,
       second_email \in SecondEmailInputs :
        HomePost(user, first_email, second_email)

DoInviteBegin ==
    \E user \in Actors, first_email \in FirstEmailInputs,
       second_email \in SecondEmailInputs :
        InviteBegin(user, first_email, second_email)

DoEvalGet == \E user \in Actors, house_id \in HouseIds : EvalGet(user, house_id)

DoEvalPost ==
    \E user \in Actors, house_id \in HouseIds, category_id \in CategoryIds,
       score \in ScoreInputs, ajax \in BOOLEAN :
        EvalPost(user, house_id, category_id, score, ajax)

Next ==
    \/ DoLogin
    \/ DoGateRejects
    \/ DoHomeGet
    \/ DoHomePost
    \/ DoInviteBegin
    \/ InviteFirst
    \/ InviteSecond
    \/ InviteCommit
    \/ DoEvalGet
    \/ DoEvalPost
    \/ Deliver

Spec == Init /\ [][Next]_vars

\* ================================================================ claims
\* The caller is a Homebuyer whose couple owns the house of the URL.
OwnsHouse(user, house_id) ==
    \E h \in Homebuyers, x \in Houses :
        h.user = user /\ x.id = house_id /\ x.couple = h.couple

\* The user has a Homebuyer row or a Realtor row.
HasRole(user) ==
    \/ \E h \in Homebuyers : h.user = user
    \/ \E r \in Realtors : r.user = user

\* The Homebuyer's couple is set.
InCouple(user) == \E h \in Homebuyers : h.user = user /\ h.couple /= NoCouple

\* The user is a Homebuyer whose couple is not set.
Coupleless(user) == \E h \in Homebuyers : h.user = user /\ h.couple = NoCouple

Tables == <<grades, pendingCouples, pendingHomebuyers>>

LinkedTo(pc_id) == { h \in pendingHomebuyers : h.pending_couple = pc_id }

\* An invitation submission that came back: HomeView.post in the realtor
\* branch with a PendingCouple of its own.
IsInvitation(r) == r.view = "home" /\ r.method = "POST" /\ r.ran /\ r.pc /= 0

\* C2: an invitation submission is all-or-nothing.  In every state another
\* request can read, each PendingCouple row has both of its PendingHomebuyer
\* rows and each PendingHomebuyer row has its PendingCouple; a submission
\* that committed left one PendingCouple of the realtor with one
\* PendingHomebuyer per email; a submission that failed after the
\* PendingCouple was created left none of its rows.
C2_InvitationAllOrNothing ==
    /\ \A c \in pendingCouples : Cardinality(LinkedTo(c.id)) = 2
    /\ \A h \in pendingHomebuyers :
          \E c \in pendingCouples : c.id = h.pending_couple
    /\ (IsInvitation(response) /\ response.status = "OK") =>
          /\ \E c \in pendingCouples :
                /\ c.id = response.pc
                /\ \E r \in Realtors : r.user = response.user /\ r.id = c.realtor
          /\ Cardinality({ c \in pendingCouples : c.id = response.pc }) = 1
          /\ Cardinality(LinkedTo(response.pc)) = 2
          /\ \E h \in LinkedTo(response.pc) : h.email = response.first_email
          /\ \E h \in LinkedTo(response.pc) : h.email = response.second_email
    /\ (IsInvitation(response) /\ response.status /= "OK") =>
          /\ \A c \in pendingCouples : c.id /= response.pc
          /\ LinkedTo(response.pc) = {}

\* C2 witness: the second invite of a submission failed, after the
\* PendingCouple and the first PendingHomebuyer had been created.
C2_Witness ==
    /\ IsInvitation(response)
    /\ response.status = "ServerError"
    /\ response.failed_at = "second"

\* An evaluation write submission that was accepted.
IsAcceptedWrite(r) ==
    r.view = "eval" /\ r.method = "POST" /\ r.ran /\ r.status = "OK"

SameTriple(g, homebuyer, category_id, house_id) ==
    g.homebuyer = homebuyer /\ g.category = category_id /\ g.house = house_id

CategoriesOfCaller(user) ==
    { c.id : c \in { k \in Categories :
                        \E h \in Homebuyers : h.user = user /\ h.couple = k.couple } }

\* C4: the evaluation read path returns exactly one (category, score) entry
\* per category of the caller's couple, in category order, with the score of
\* the caller's Grade for that category and house when there is one and the
\* ungraded sentinel otherwise, for every category identifier.
C4_ReadPathOneEntryPerCategory ==
    (response.view = "eval" /\ response.method = "GET" /\ response.ran
        /\ response.status = "OK") =>
       LET body == response.body
           cats == CategoriesOfCaller(response.user)
           mine(c) == { g \in grades : SameTriple(g, response.user, c, response.house) }
       IN  /\ Len(body) = Cardinality(cats)
           /\ { body[i].category : i \in 1..Len(body) } = cats
           /\ \A i, j \in 1..Len(body) : i < j => body[i].category < body[j].category
           /\ \A i \in 1..Len(body) :
                 /\ body[i].has_score = (mine(body[i].category) /= {})
                 /\ body[i].has_score =>
                       \E g \in mine(body[i].category) : g.score = body[i].score

\* A Homebuyer in a couple asked for a house their couple does not own.
IsForeignHouseRequest(r) ==
    r.view = "eval" /\ InCouple(r.user) /\ ~OwnsHouse(r.user, r.house)

\* C5: a Homebuyer's evaluation request (GET or POST) for a house that is
\* not linked to their couple ends in PermissionDenied, never in NotFound or
\* success, and changes no Grade row.
C5_ForeignHouseDenied ==
    [][ (response' /= Idle /\ IsForeignHouseRequest(response')) =>
          /\ response'.status = "PermissionDenied"
          /\ ~response'.ran
          /\ grades' = grades
      ]_vars

\* C5 witness: hb1 posted an evaluation for house 3, which exists and
\* belongs to the other couple, while a Grade row exists.
C5_Witness ==
    /\ IsForeignHouseRequest(response)
    /\ response.method = "POST"
    /\ response.user = "hb1"
    /\ response.house = 3
    /\ response.status = "PermissionDenied"
    /\ grades /= {}

\* C6: an evaluation write submission without the AJAX marker that reaches
\* EvalView.post is rejected with PermissionDenied whatever its house id,
\* category id and score are, and no evaluation post other than an accepted
\* AJAX one changes the Grade rows.
C6_NonAjaxRejected ==
    [][ (response' /= Idle /\ response'.view = "eval" /\ response'.method = "POST") =>
          /\ (response'.ran /\ ~response'.ajax) =>
                response'.status = "PermissionDenied"
          /\ ~(response'.ran /\ response'.ajax) =>
                response'.status /= "OK" /\ grades' = grades
      ]_vars

\* C6 witness: a non-AJAX post whose house, category and score were all
\* valid was denied.
C6_Witness ==
    /\ response.view = "eval"
    /\ response.method = "POST"
    /\ response.ran
    /\ ~response.ajax
    /\ OwnsHouse(response.user, response.house)
    /\ response.category \in CategoriesOfCaller(response.user)
    /\ ParseInt(response.score).ok
    /\ response.status = "PermissionDenied"

\* C7: for an authenticated actor whose role resolves, HomeView.get takes
\* the branch of that role, never the "neither" path: a Homebuyer (with or
\* without a couple) the homebuyer branch, a Realtor (with or without
\* couples) the realtor branch.
C7_HomeBranchOfRole ==
    (response.view = "home" /\ response.method = "GET" /\ response.ran) =>
       /\ (\E h \in Homebuyers : h.user = response.user) =>
             response.branch = "homebuyer"
       /\ (\E r \in Realtors : r.user = response.user) =>
             response.branch = "realtor"

\* C8: every Grade row's category belongs to the couple of the house it
\* grades.
C8_GradeCategoryOfHouseCouple ==
    \A g \in grades :
       \E c \in Categories, x \in Houses :
          c.id = g.category /\ x.id = g.house /\ c.couple = x.couple

\* The realtor view came back: HomeView.get or HomeView.post rendered
\* core/realtorHome.html.
IsRealtorView(r) ==
    r.view = "home" /\ r.ran /\ r.branch = "realtor" /\ r.status = "OK"

\* C9: the realtor view renders all of the realtor's couples with
\* is_pending false, followed by all of the realtor's pending couples with
\* is_pending true, each once and each with its own homebuyers or pending
\* homebuyers; the response to an invitation that committed includes the
\* new pending couple with its two pending homebuyers.
C9_RealtorViewCouplesThenPending ==
    IsRealtorView(response) =>
       LET body == response.body
           idx == 1..Len(body)
           real == { i \in idx : ~body[i].pending }
           pend == { i \in idx : body[i].pending }
           realtor == { r.id : r \in { q \in Realtors : q.user = response.user } }
           owned == { c.id : c \in { k \in Couples : k.realtor \in realtor } }
           invited == { c.id : c \in { k \in pendingCouples : k.realtor \in realtor } }
       IN  /\ \A i \in real, j \in pend : i < j
           /\ { body[i].entity : i \in real } = owned
           /\ Cardinality(real) = Cardinality(owned)
           /\ { body[i].entity : i \in pend } = invited
           /\ Cardinality(pend) = Cardinality(invited)
           /\ \A i \in real :
                 body[i].members =
                    { h.user : h \in { g \in Homebuyers : g.couple = body[i].entity } }
           /\ \A i \in pend :
                 body[i].members = { h.id : h \in LinkedTo(body[i].entity) }
           /\ (response.method = "POST" /\ response.pc /= 0) =>
                 \E i \in pend :
                    /\ body[i].entity = response.pc
                    /\ Cardinality(body[i].members) = 2
                    /\ { h.email : h \in LinkedTo(response.pc) }
                          = {response.first_email, response.second_email}

\* C9 witness: realtor1, who owns two couples, got the response to an
\* invitation that committed.
C9_Witness ==
    /\ IsRealtorView(response)
    /\ response.method = "POST"
    /\ response.pc /= 0
    /\ response.user = "realtor1"
    /\ Len(response.body) = 3

\* C10: the Grade rows change only in an accepted evaluation write; no step
\* deletes a Grade; an accepted write by h for (c, x) creates or updates the
\* row of (h, c, x) alone, and leaves every other Grade row and the pending
\* tables as they were.
C10_GradesChangeOnlyByAcceptedWrite ==
    [][ /\ grades' /= grades => IsAcceptedWrite(response')
        /\ \A g \in grades :
              \E k \in grades' : SameTriple(k, g.homebuyer, g.category, g.house)
        /\ IsAcceptedWrite(response') =>
              LET r == response'
              IN  /\ { g \in grades : ~SameTriple(g, r.user, r.category, r.house) }
                       = { g \in grades' : ~SameTriple(g, r.user, r.category, r.house) }
                  /\ pendingCouples' = pendingCouples
                  /\ pendingHomebuyers' = pendingHomebuyers
                  /\ tx' = tx
      ]_vars

\* C10 witness: hb1's write for (category 1, house 1) was accepted while the
\* partner hb2 holds a grade with another score for the same category and
\* house.
C10_Witness ==
    /\ IsAcceptedWrite(response)
    /\ response.user = "hb1"
    /\ response.category = 1
    /\ response.house = 1
    /\ response.score = "5"
    /\ [homebuyer |-> "hb2", category |-> 1, house |-> 1, score |-> 1] \in grades
    /\ [homebuyer |-> "hb1", category |-> 1, house |-> 1, score |-> 5] \in grades

====
